---- MODULE Spec2Model ----
(***************************************************************************)
(* Authentication / authorization core of the NGO-management REST backend. *)
(*                                                                         *)
(* The repository holds two copies of the authentication middleware        *)
(* (src/middleware/authMiddleware.js and src/unnamed/part_000) and of the  *)
(* auth controller (part_008, part_009); `mwVersion` fixes which middleware *)
(* copy the deployed tree holds.                                           *)
(*                                                                         *)
(* The credential store is the Sequelize model `User` of                   *)
(* src/unnamed/part_006 (identical in part_005): its attributes are id,    *)
(* username, password, role, ...; it has NO attribute `type`.  Values a    *)
(* controller passes under a name that is not an attribute are dropped by  *)
(* User.create / instance.update, and reading such a name from a loaded    *)
(* instance yields undefined.                                              *)
(***************************************************************************)
EXTENDS Integers, Sequences, FiniteSets, TLC

VARIABLES mwVersion, secret, users, nextId, donors, reports, attendance, issued, now,
          reqs, last

vars == <<mwVersion, secret, users, nextId, donors, reports, attendance, issued, now,
         reqs, last>>

(***************************************************************************)
(* Bounds of the model.                                                    *)
(***************************************************************************)
MaxId == 3

MaxTicks == 2

MaxTokens == 1

MaxInFlight == 1

MaxSalt == 1

MaxReports == 2

Ids == 1..MaxId

Slots == 1..MaxInFlight

Salts == 1..MaxSalt

Usernames == {"alice", "bob", "carol"}

\* The passwords clients send (besides an empty and a missing one).
Passwords == {"secret123"}

\* The one amount request bodies carry.
Amounts == {"20"}

(***************************************************************************)
(* JavaScript values.                                                      *)
(***************************************************************************)
Undefined == "undefined"

Null == "null"

\* The empty string as the value of a body field.
EmptyText == ""

(***************************************************************************)
(* Program constants.                                                      *)
(***************************************************************************)
TTL == 86400

TickStep == 86400

\* The value of SECRET in the environment file; `secret` is process.env.SECRET,
\* which is undefined when the file does not set it.
Secret == "process.env.SECRET"

(***************************************************************************)
(* bcryptjs.  A stored password string is [bcrypt, salt, text]: the        *)
(* plaintext p written verbatim is [bcrypt |-> FALSE, salt |-> 0,          *)
(* text |-> p]; hashSync(p, 8) with the fresh salt s is                    *)
(* [bcrypt |-> TRUE, salt |-> s, text |-> p].                              *)
(***************************************************************************)
Plain(p) == [bcrypt |-> FALSE, salt |-> 0, text |-> p]

hashSync(p, s) == [bcrypt |-> TRUE, salt |-> s, text |-> p]

hashSyncThrows(p) == p = Undefined

compareSync(p, stored) == stored.bcrypt /\ stored.text = p

(***************************************************************************)
(* models/User.js: the attributes sequelize.define declares (the profile   *)
(* attributes email, phone, ... play no part in the core and are omitted). *)
(***************************************************************************)
UserAttributes == {"id", "username", "password", "role"}

UserRoles == {"admin", "donor", "volunteer", "beneficiary", "employee"}

DefaultRole == "volunteer"

\* Reading property a of a loaded instance / of a plain object.
Get(obj, a) == IF a \in DOMAIN obj THEN obj[a] ELSE Undefined

\* Whether attribute a of `values` is the JavaScript undefined.
IsUndefined(values, a) ==
    IF a = "password" THEN values[a].text = Undefined ELSE values[a] = Undefined

\* The attributes of `values` the model keeps (Model#set drops the others).
Known(values) ==
    {a \in DOMAIN values : a \in UserAttributes /\ ~IsUndefined(values, a)}

\* User.create(values) rejects: NOT NULL, UNIQUE(username), ENUM(role).
CreateThrows(values, store) ==
    \/ "username" \notin Known(values)
    \/ "password" \notin Known(values)
    \/ \E i \in DOMAIN store : store[i].username = values.username
    \/ ("role" \in Known(values) /\ values.role \notin UserRoles)

\* The row User.create(values) inserts under the autoincrement id.
NewRow(values, id) ==
    [id |-> id,
     username |-> values.username,
     password |-> values.password,
     role |-> IF "role" \in Known(values) THEN values.role ELSE DefaultRole]

\* instance.update(values): only declared, supplied attributes change.
UpdatedRow(row, values) ==
    [a \in UserAttributes |->
        IF a \in Known(values) /\ a # "id" THEN values[a] ELSE row[a]]

UpdateThrows(row, values, store) ==
    \/ ("username" \in Known(values)
        /\ \E i \in DOMAIN store : i # row.id /\ store[i].username = values.username)
    \/ ("role" \in Known(values) /\ values.role \notin UserRoles)

\* res.json(instance): the instance's dataValues, minus the deleted keys.
ToJSON(row, deleted) == [a \in (DOMAIN row) \ deleted |-> row[a]]

Put(store, row) == [i \in (DOMAIN store) \cup {row.id} |-> IF i = row.id THEN row ELSE store[i]]

Remove(store, id) == [i \in (DOMAIN store) \ {id} |-> store[i]]

(***************************************************************************)
(* jsonwebtoken.  A string that may travel in the Authorization header is  *)
(* [kind, id, iat, exp, key]; kind "jwt" is a three-segment token signed   *)
(* with `key`, the other kinds are the words "Bearer", "" and a string     *)
(* that is not a token.                                                    *)
(***************************************************************************)
Word(w) == [kind |-> w, id |-> 0, iat |-> 0, exp |-> 0, key |-> "none"]

BearerWord == Word("Bearer")

EmptyString == Word("")

Garbage == Word("garbage")

\* sign with expiresIn given in milliseconds where jsonwebtoken reads seconds.
sign_Millis(id, key, t) ==
    [kind |-> "jwt", id |-> id, iat |-> t, exp |-> t + TTL * 1000, key |-> key]

\* jwt.sign({id, ...}, key, {expiresIn: TTL}) at time t.
sign(id, key, t) == [kind |-> "jwt", id |-> id, iat |-> t, exp |-> t + TTL, key |-> key]

\* jwt.verify(str, process.env.SECRET) at time t: the error it throws, or "ok".
verify(str, t) ==
    IF str.kind = "" THEN "jwt must be provided"
    ELSE IF str.kind # "jwt" THEN "jwt malformed"
    ELSE IF secret = Undefined THEN "secret or public key must be provided"
    ELSE IF str.key # secret THEN "invalid signature"
    ELSE IF t >= str.exp THEN "jwt expired"
    ELSE "ok"

(***************************************************************************)
(* The Authorization header: absent, or the text made of `parts` joined by *)
(* single spaces, so that text.split(" ") = parts.                         *)
(***************************************************************************)
NoHeader == [present |-> FALSE, parts |-> <<>>]

Header(parts) == [present |-> TRUE, parts |-> parts]

\* !token
Falsy(h) == ~h.present \/ h.parts = <<EmptyString>>

\* token.startsWith("Bearer ")
startsWithBearer(h) == Len(h.parts) >= 2 /\ h.parts[1] = BearerWord

\* token.split(" ")[1]  (undefined when there is no second part)
SecondPart(h) == IF Len(h.parts) >= 2 THEN h.parts[2] ELSE Word(Undefined)

\* the whole header text as one string
WholeText(h) == IF Len(h.parts) = 1 THEN h.parts[1] ELSE Garbage

(***************************************************************************)
(* Requests.  A request is [pc, hdr, id, user, nresp, invoked, authed]:     *)
(* pc is where its callback chain stands ("idle": no request in the slot,  *)
(* "lookup": suspended in await User.findByPk, "handler": next() was       *)
(* called and the route handler is about to run, "done": finished), id the *)
(* subject decoded from the token, user the principal hung on req.user,    *)
(* nresp the number of responses written, invoked whether next() ran,      *)
(* authed whether req.user was assigned.                                   *)
(***************************************************************************)
NoPrincipal == [id |-> 0, type |-> Null]

Idle == [pc |-> "idle", hdr |-> NoHeader, id |-> 0, user |-> NoPrincipal,
         nresp |-> 0, invoked |-> FALSE, authed |-> FALSE]

Finished(r, n) == [pc |-> "done", hdr |-> NoHeader, id |-> 0, user |-> NoPrincipal,
                   nresp |-> r.nresp + n, invoked |-> r.invoked, authed |-> r.authed]

\* A response: who sent it (route) to which header and to a principal of which
\* type (the principal's id is not kept), the status,
\* the message text, the exception the code caught on the way (Null when none),
\* the exception text forwarded to the client (Null when none is), the user
\* records returned, the token returned.
Response(route, hdr, user, status, msg, caught, detail, data, token) ==
    [route |-> route, hdr |-> hdr, user |-> user, status |-> status, msg |-> msg,
     caught |-> caught, detail |-> detail, data |-> data, token |-> token]

NoResponse == Response("none", NoHeader, NoPrincipal, 0, "", Null, Null, {}, Word(Null))

\* A response of the middleware itself.
Rejected(hdr, status, msg, caught, detail) ==
    Response("authMiddleware", hdr, NoPrincipal, status, msg, caught, detail, {}, Word(Null))

\* The header values a client may send: it holds the tokens issued so far
\* and can sign tokens only with a key of its own.
Headers ==
    {NoHeader, Header(<<EmptyString>>), Header(<<Garbage>>), Header(<<BearerWord>>),
     Header(<<BearerWord, EmptyString>>), Header(<<BearerWord, Garbage>>)}
    \cup {Header(<<t>>) : t \in issued}
    \cup {Header(<<BearerWord, t>>) : t \in issued}
    \cup {Header(<<BearerWord, sign(i, "attacker", now)>>) : i \in Ids}

(***************************************************************************)
(* authMiddleware, up to its suspension in await User.findByPk.            *)
(***************************************************************************)
\* src/middleware/authMiddleware.js
tokenWithoutBearer(h) == IF startsWithBearer(h) THEN SecondPart(h) ELSE WholeText(h)

\* src/unnamed/part_000
tokenValue(h) == SecondPart(h)

\* The outcome of the synchronous prefix: the rejection sent, or "verified".
PrefixMain(h) ==
    IF Falsy(h) THEN Rejected(h, 401, "Access denied. No token provided.", Null, Null)
    ELSE IF verify(tokenWithoutBearer(h), now) # "ok"
         THEN Rejected(h, 400, "Invalid token.", verify(tokenWithoutBearer(h), now), Null)
         ELSE Rejected(h, 0, "verified", Null, Null)

PrefixVariant(h) ==
    IF Falsy(h) THEN Rejected(h, 401, "Access denied. No token provided.", Null, Null)
    ELSE IF tokenValue(h).kind \in {"", Undefined}
         THEN Rejected(h, 401, "Invalid token format.", Null, Null)
         ELSE IF verify(tokenValue(h), now) # "ok"
              THEN Rejected(h, 400, "Invalid token.", verify(tokenValue(h), now),
                            verify(tokenValue(h), now))
              ELSE Rejected(h, 0, "verified", Null, Null)

\* Prefix without `if (!token)`: the missing header goes on to jwt.verify.
Prefix_NoTokenCheck(h) ==
    LET tok == IF mwVersion = "authMiddleware.js" THEN tokenWithoutBearer(h) ELSE tokenValue(h)
    IN  IF verify(tok, now) # "ok"
        THEN Rejected(h, 400, "Invalid token.", verify(tok, now), Null)
        ELSE Rejected(h, 0, "verified", Null, Null)

Prefix(h) == IF mwVersion = "authMiddleware.js" THEN PrefixMain(h) ELSE PrefixVariant(h)

decoded(h) == IF mwVersion = "authMiddleware.js" THEN tokenWithoutBearer(h) ELSE tokenValue(h)

Receive(s) ==
    /\ reqs[s].pc = "idle"
    /\ \E h \in Headers :
        LET out == Prefix(h) IN
        IF out.msg = "verified"
        THEN /\ reqs' = [reqs EXCEPT ![s] = [Idle EXCEPT !.pc = "lookup", !.hdr = h,
                                                       !.id = decoded(h).id]]
             /\ UNCHANGED last
        ELSE /\ reqs' = [reqs EXCEPT ![s] = Finished(Idle, 1)]
             /\ last' = out
    /\ UNCHANGED <<mwVersion, secret, users, nextId, donors, reports, attendance, issued, now>>

(***************************************************************************)
(* authMiddleware, from the resumption of await User.findByPk(decoded.id)  *)
(* to next().  The store may fail the read (the await rejects).            *)
(***************************************************************************)
StoreError == "SequelizeConnectionError"

\* req.user = { id: decoded.id, type: user.type }
Principal(id, row) == [id |-> id, type |-> Get(row, "type")]

\* LookupOutcome without `if (!user)`: reading user.type of null throws into
\* the catch.
LookupOutcome_NoNullCheck(r, dbOk) ==
    IF ~dbOk
    THEN [req |-> Finished(r, 1),
          resp |-> Rejected(r.hdr, 400, "Invalid token.", StoreError,
                            IF mwVersion = "authMiddleware.js" THEN Null ELSE StoreError)]
    ELSE IF r.id \notin DOMAIN users
    THEN [req |-> Finished(r, 1),
          resp |-> Rejected(r.hdr, 400, "Invalid token.", "TypeError",
                            IF mwVersion = "authMiddleware.js" THEN Null ELSE "TypeError")]
    ELSE [req |-> [r EXCEPT !.pc = "handler", !.user = Principal(r.id, users[r.id]),
                            !.authed = TRUE, !.invoked = TRUE],
          resp |-> NoResponse]

\* LookupOutcome without the `return` before res.status(404): the 404 is sent,
\* then user.type of null throws and the catch sends a second response.
LookupOutcome_NoReturn(r, dbOk) ==
    IF ~dbOk
    THEN [req |-> Finished(r, 1),
          resp |-> Rejected(r.hdr, 400, "Invalid token.", StoreError,
                            IF mwVersion = "authMiddleware.js" THEN Null ELSE StoreError)]
    ELSE IF r.id \notin DOMAIN users
    THEN [req |-> Finished(r, 2),
          resp |-> Rejected(r.hdr, 404, "User not found.", "TypeError", Null)]
    ELSE [req |-> [r EXCEPT !.pc = "handler", !.user = Principal(r.id, users[r.id]),
                            !.authed = TRUE, !.invoked = TRUE],
          resp |-> NoResponse]

\* What the resumed middleware does with request r: the request afterwards
\* and the response it sends (NoResponse when it calls next() instead).
LookupOutcome(r, dbOk) ==
    IF ~dbOk
    THEN [req |-> Finished(r, 1),
          resp |-> Rejected(r.hdr, 400, "Invalid token.", StoreError,
                            IF mwVersion = "authMiddleware.js" THEN Null ELSE StoreError)]
    ELSE IF r.id \notin DOMAIN users
    THEN [req |-> Finished(r, 1),
          resp |-> Rejected(r.hdr, 404, "User not found.", Null, Null)]
    ELSE [req |-> [r EXCEPT !.pc = "handler", !.user = Principal(r.id, users[r.id]),
                            !.authed = TRUE, !.invoked = TRUE],
          resp |-> NoResponse]

\* MwLookup with User.findOrCreate in the place of User.findByPk: a subject
\* without a record gets one.
MwLookup_FindOrCreate(s) ==
    /\ reqs[s].pc = "lookup"
    /\ \E dbOk \in BOOLEAN :
        LET out == LookupOutcome(reqs[s], dbOk) IN
        /\ reqs' = [reqs EXCEPT ![s] = out.req]
        /\ last' = IF out.resp = NoResponse THEN last ELSE out.resp
        /\ users' = IF dbOk /\ reqs[s].id \notin DOMAIN users
                    THEN Put(users, [id |-> reqs[s].id, username |-> Undefined,
                                     password |-> hashSync(Undefined, 1), role |-> DefaultRole])
                    ELSE users
    /\ UNCHANGED <<mwVersion, secret, nextId, donors, reports, attendance, issued, now>>

MwLookup(s) ==
    /\ reqs[s].pc = "lookup"
    /\ \E dbOk \in BOOLEAN :
        LET out == LookupOutcome(reqs[s], dbOk) IN
        /\ reqs' = [reqs EXCEPT ![s] = out.req]
        /\ last' = IF out.resp = NoResponse THEN last ELSE out.resp
    /\ UNCHANGED <<mwVersion, secret, users, nextId, donors, reports, attendance, issued, now>>

(***************************************************************************)
(* Route handlers.  A handler takes the stores st = [users, nextId,        *)
(* donors], the principal and the request's parameters and yields the      *)
(* stores afterwards and the one response it writes.  dbOk tells whether   *)
(* the store answered its queries (a failed query rejects the await and    *)
(* lands in the handler's catch).                                          *)
(***************************************************************************)
Reply(st, status, msg, detail, data) ==
    [st |-> st, status |-> status, msg |-> msg, caught |-> detail, detail |-> detail,
     data |-> data]

\* catch (error) { res.status(500).json({error: ..., details: [error.message]}) }
InternalError(st, dbOk, other) ==
    Reply(st, 500, "Internal server error", IF dbOk THEN other ELSE StoreError, {})

\* catch (err) { res.status(500).send("Error on the server.") }
ServerError(st, err) ==
    [st |-> st, status |-> 500, msg |-> "Error on the server.", caught |-> err,
     detail |-> Null, data |-> {}]

\* The request bodies drawn: username, password, type and role; a body names
\* a type or a role only together with a username and a password.
Bodies ==
    {b \in [username : Usernames \cup {Undefined},
            password : Passwords \cup {Undefined, EmptyText},
            type : {Undefined, "admin"}, role : {Undefined, "admin"}] :
        (b.type # Undefined \/ b.role # Undefined)
            => (b.username = "carol" /\ b.password \in Passwords)}

\* The bodies drawn for the handlers that read username and password only.
Credentials == {b \in Bodies : b.type = Undefined /\ b.role = Undefined}

\* req.body handed to the store as it is: the password is the plaintext.
BodyValues(b) ==
    [username |-> b.username, password |-> Plain(b.password),
     type |-> b.type, role |-> b.role]

\* A where clause naming a column the table does not have fails in the store.
WhereThrows(columns) == \E c \in columns : c \notin UserAttributes

Inserted(st, values) ==
    [st EXCEPT !.users = Put(st.users, NewRow(values, st.nextId)), !.nextId = st.nextId + 1]

\* ---- src/controllers/adminController.js ----
getAllAdmins(st, user, dbOk) ==
    IF ~dbOk \/ WhereThrows({"type"})
    THEN InternalError(st, dbOk, "Unknown column 'type'")
    ELSE Reply(st, 200, "", Null,
               {ToJSON(st.users[i], {}) : i \in {j \in DOMAIN st.users :
                                                    Get(st.users[j], "type") = "admin"}})

getAdminById(st, user, id, dbOk) ==
    IF ~dbOk THEN InternalError(st, dbOk, Null)
    ELSE IF id \notin DOMAIN st.users THEN Reply(st, 404, "Admin not found.", Null, {})
    ELSE Reply(st, 200, "", Null, {ToJSON(st.users[id], {})})

createAdmin(st, user, b, dbOk) ==
    IF b.username = Undefined \/ b.password \in {Undefined, EmptyText} \/ b.type # "admin"
    THEN Reply(st, 400, "errors", Null, {})
    ELSE IF user.type # "admin"
    THEN Reply(st, 401, "Unauthorized. Only admin users can create other admins.", Null, {})
    ELSE IF ~dbOk \/ CreateThrows(BodyValues(b), st.users)
    THEN InternalError(st, dbOk, "SequelizeValidationError")
    ELSE Reply(Inserted(st, BodyValues(b)), 201, "", Null,
               {ToJSON(NewRow(BodyValues(b), st.nextId), {})})

updateAdmin(st, user, id, b, dbOk) ==
    IF user.type # "admin"
    THEN Reply(st, 401, "Unauthorized. Only admin users can update admin details.", Null, {})
    ELSE IF ~dbOk THEN InternalError(st, dbOk, Null)
    ELSE IF id \notin DOMAIN st.users THEN Reply(st, 404, "Admin not found.", Null, {})
    ELSE IF UpdateThrows(st.users[id], BodyValues(b), st.users)
    THEN InternalError(st, dbOk, "SequelizeValidationError")
    ELSE Reply([st EXCEPT !.users = Put(st.users, UpdatedRow(st.users[id], BodyValues(b)))],
               200, "", Null, {ToJSON(UpdatedRow(st.users[id], BodyValues(b)), {})})

deleteAdmin(st, user, id, dbOk) ==
    IF user.type # "admin"
    THEN Reply(st, 401, "Unauthorized. Only admin users can delete admin accounts.", Null, {})
    ELSE IF ~dbOk THEN InternalError(st, dbOk, Null)
    ELSE IF id \notin DOMAIN st.users THEN Reply(st, 404, "Admin not found.", Null, {})
    ELSE Reply([st EXCEPT !.users = Remove(st.users, id)], 204, "", Null, {})

\* ---- userController (src/unnamed/part_010) ----
getAllUsers(st, user, dbOk) ==
    IF user.type # "admin"
    THEN Reply(st, 401, "Unauthorized. Only admin users can view users.", Null, {})
    ELSE IF ~dbOk THEN InternalError(st, dbOk, Null)
    ELSE Reply(st, 200, "", Null, {ToJSON(st.users[i], {"password"}) : i \in DOMAIN st.users})

getUserById(st, user, id, dbOk) ==
    IF user.type # "admin"
    THEN Reply(st, 401, "Unauthorized. Only admin users can view users.", Null, {})
    ELSE IF ~dbOk THEN InternalError(st, dbOk, Null)
    ELSE IF id \notin DOMAIN st.users THEN Reply(st, 404, "User not found.", Null, {})
    ELSE Reply(st, 200, "", Null, {ToJSON(st.users[id], {"password"})})

createUser(st, user, b, dbOk) ==
    IF b.username = Undefined \/ b.password \in {Undefined, EmptyText}
       \/ b.type \notin {"admin", "school_admin", "employee", "student", "parent"}
    THEN Reply(st, 400, "errors", Null, {})
    ELSE IF user.type # "admin"
    THEN Reply(st, 401, "Unauthorized. Only admin users can create new users.", Null, {})
    ELSE IF ~dbOk \/ CreateThrows(BodyValues(b), st.users)
    THEN InternalError(st, dbOk, "SequelizeValidationError")
    ELSE Reply(Inserted(st, BodyValues(b)), 201, "", Null,
               {ToJSON(NewRow(BodyValues(b), st.nextId), {"password"})})

updateUser(st, user, id, b, dbOk) ==
    IF user.type # "admin"
    THEN Reply(st, 401, "Unauthorized. Only admin users can update users.", Null, {})
    ELSE IF ~dbOk THEN InternalError(st, dbOk, Null)
    ELSE IF id \notin DOMAIN st.users THEN Reply(st, 404, "User not found.", Null, {})
    ELSE IF UpdateThrows(st.users[id], BodyValues(b), st.users)
    THEN InternalError(st, dbOk, "SequelizeValidationError")
    ELSE Reply([st EXCEPT !.users = Put(st.users, UpdatedRow(st.users[id], BodyValues(b)))],
               200, "", Null, {ToJSON(UpdatedRow(st.users[id], BodyValues(b)), {"password"})})

deleteUser(st, user, id, dbOk) ==
    IF user.type # "admin"
    THEN Reply(st, 401, "Unauthorized. Only admin users can delete users.", Null, {})
    ELSE IF ~dbOk THEN InternalError(st, dbOk, Null)
    ELSE IF id \notin DOMAIN st.users THEN Reply(st, 404, "User not found.", Null, {})
    ELSE Reply([st EXCEPT !.users = Remove(st.users, id)], 204, "", Null, {})

\* ---- donorController (src/controllers/reportController.js, lines 488-910) ----
getDonorById(st, user, id, dbOk) ==
    IF user.type # "admin"
    THEN Reply(st, 401, "Unauthorized. Only admin users can view donors.", Null, {})
    ELSE IF ~dbOk THEN InternalError(st, dbOk, Null)
    ELSE IF id \notin st.donors.ids THEN Reply(st, 404, "Donor not found.", Null, {})
    ELSE Reply(st, 200, "donor", Null, {})

createDonor(st, user, dbOk) ==
    IF user.type # "admin"
    THEN Reply(st, 401, "Unauthorized. Only admin users can create new donors.", Null, {})
    ELSE IF ~dbOk THEN InternalError(st, dbOk, Null)
    ELSE Reply([st EXCEPT !.donors = [ids |-> st.donors.ids \cup {st.donors.next},
                                      next |-> st.donors.next + 1]],
               201, "donor", Null, {})

deleteDonor(st, user, id, dbOk) ==
    IF user.type # "admin"
    THEN Reply(st, 401, "Unauthorized. Only admin users can delete donors.", Null, {})
    ELSE IF ~dbOk THEN InternalError(st, dbOk, Null)
    ELSE IF id \notin st.donors.ids THEN Reply(st, 404, "Donor not found.", Null, {})
    ELSE Reply([st EXCEPT !.donors.ids = st.donors.ids \ {id}],
               200, "Donor deleted successfully.", Null, {})

\* ---- reportController (src/controllers/reportController.js, lines 99-486) ----
\* The authorization test of the by-id report handlers.  req.user holds id and
\* type only, so currentUser.ngo_id reads as undefined.
ReportAllowed(user, report) ==
    \/ user.type = "admin"
    \/ (user.type = "ngo_admin" /\ Get(user, "ngo_id") = report.ngo_id)

\* getReportById without the authorization test.
getReportById_NoCheck(st, user, id, dbOk) ==
    IF ~dbOk THEN InternalError(st, dbOk, Null)
    ELSE IF id \notin DOMAIN st.reports.rows THEN Reply(st, 404, "Report not found.", Null, {})
    ELSE Reply(st, 200, "", Null, {st.reports.rows[id]})

getReportById(st, user, id, dbOk) ==
    IF ~dbOk THEN InternalError(st, dbOk, Null)
    ELSE IF id \notin DOMAIN st.reports.rows THEN Reply(st, 404, "Report not found.", Null, {})
    ELSE IF ReportAllowed(user, st.reports.rows[id])
    THEN Reply(st, 200, "", Null, {st.reports.rows[id]})
    ELSE Reply(st, 401, "Unauthorized. You do not have access to this report.", Null, {})

\* Report.create: a value left undefined is stored as NULL.
NewReport(st, user, amount) ==
    [id |-> st.reports.next,
     ngo_id |-> IF Get(user, "ngo_id") = Undefined THEN Null ELSE Get(user, "ngo_id"),
     aid_amount |-> amount]

createReport(st, user, valid, amount, dbOk) ==
    IF ~valid THEN Reply(st, 400, "errors", Null, {})
    ELSE IF ~dbOk THEN InternalError(st, dbOk, Null)
    ELSE Reply([st EXCEPT !.reports = [rows |-> Put(st.reports.rows, NewReport(st, user, amount)),
                                       next |-> st.reports.next + 1]],
               201, "", Null, {NewReport(st, user, amount)})

\* report.aid_amount = aid_amount when the body carries one; report.save().
SavedReport(report, amount) ==
    [report EXCEPT !.aid_amount = IF amount # Undefined THEN amount ELSE report.aid_amount]

updateReportById(st, user, id, amount, dbOk) ==
    IF ~dbOk THEN InternalError(st, dbOk, Null)
    ELSE IF id \notin DOMAIN st.reports.rows THEN Reply(st, 404, "Report not found.", Null, {})
    ELSE IF ReportAllowed(user, st.reports.rows[id])
    THEN Reply([st EXCEPT !.reports.rows = Put(st.reports.rows,
                                               SavedReport(st.reports.rows[id], amount))],
               200, "", Null, {SavedReport(st.reports.rows[id], amount)})
    ELSE Reply(st, 401, "Unauthorized. You do not have access to update this report.",
               Null, {})

deleteReportById(st, user, id, dbOk) ==
    IF ~dbOk THEN InternalError(st, dbOk, Null)
    ELSE IF id \notin DOMAIN st.reports.rows THEN Reply(st, 404, "Report not found.", Null, {})
    ELSE IF ReportAllowed(user, st.reports.rows[id])
    THEN Reply([st EXCEPT !.reports.rows = Remove(st.reports.rows, id)],
               200, "Report deleted successfully.", Null, {})
    ELSE Reply(st, 401, "Unauthorized. You do not have access to delete this report.",
               Null, {})

\* whereCondition of the list: a filter on ngo_id for ngo_admin, none for
\* every other type.
getAllReports(st, user, valid, dbOk) ==
    IF ~valid THEN Reply(st, 400, "errors", Null, {})
    ELSE IF ~dbOk THEN InternalError(st, dbOk, Null)
    ELSE Reply(st, 200, "", Null,
               {st.reports.rows[i] : i \in {j \in DOMAIN st.reports.rows :
                    user.type = "ngo_admin"
                        => st.reports.rows[j].ngo_id = Get(user, "ngo_id")}})

\* ---- employeeController, volunteerController (src/unnamed/part_010) ----
\* The outcome of an async handler that throws outside its try: the promise
\* it returned is rejected, nothing handles the rejection and no response is
\* written.
Unhandled(st) ==
    [st |-> st, status |-> 0, msg |-> "unhandled rejection", caught |-> Null,
     detail |-> Null, data |-> {}]

\* r is the request: currentUser.type throws TypeError when req.user was
\* never assigned (r.authed is false).
getAllEmployees(st, r, valid, dbOk) ==
    IF ~valid THEN Reply(st, 400, "errors", Null, {})
    ELSE IF ~r.authed THEN Unhandled(st)
    ELSE IF r.user.type # "admin"
    THEN Reply(st, 401, "Unauthorized. Only admin users can view employees.", Null, {})
    ELSE IF ~dbOk THEN InternalError(st, dbOk, Null)
    ELSE Reply(st, 200, "employees", Null, {})

getAllVolunteers(st, r, dbOk) ==
    IF ~r.authed THEN Unhandled(st)
    ELSE IF r.user.type \notin {"admin", "coordinator", "employee"}
            \/ (r.user.type = "coordinator"
                /\ Get(r.user, "isAssignedToVolunteerTask") \in {Undefined, FALSE})
    THEN Reply(st, 401, "Unauthorized. User lacks the required privileges.", Null, {})
    ELSE IF ~dbOk THEN InternalError(st, dbOk, Null)
    ELSE Reply(st, 200, "volunteers", Null, {})

\* ---- volunteerAttendanceController (src/unnamed/part_011) ----
\* userCondition of the list: a filter for school_admin and for employee, and
\* the empty condition {} for every other type.
userCondition(user, row) ==
    IF user.type = "school_admin" THEN row.school_id = Get(user, "school_id")
    ELSE IF user.type = "employee" THEN row.batch_id = Get(user, "batch_id")
    ELSE TRUE

getAllVolunteerAttendance(st, user, dbOk) ==
    IF ~dbOk THEN InternalError(st, dbOk, Null)
    ELSE Reply(st, 200, "", Null,
               {st.attendance[i] : i \in {j \in DOMAIN st.attendance :
                                            userCondition(user, st.attendance[j])}})

getVolunteerAttendanceById(st, user, id, dbOk) ==
    IF ~dbOk THEN InternalError(st, dbOk, Null)
    ELSE IF id \notin DOMAIN st.attendance
    THEN Reply(st, 404, "Volunteer attendance record not found.", Null, {})
    ELSE IF user.type = "school_admin"
            /\ st.attendance[id].school_id # Get(user, "school_id")
    THEN Reply(st, 401, "Unauthorized. You can only view volunteer attendance for your school's batches.", Null, {})
    ELSE IF user.type = "employee" /\ st.attendance[id].batch_id # Get(user, "batch_id")
    THEN Reply(st, 401, "Unauthorized. You can only view volunteer attendance for your batch.", Null, {})
    ELSE IF user.type \notin {"school_admin", "employee", "admin"}
    THEN Reply(st, 401, "Unauthorized. Only admins, school admins, and employees can view volunteer attendance.", Null, {})
    ELSE Reply(st, 200, "", Null, {st.attendance[id]})

\* ---- authController (src/unnamed/part_008) ----
\* adminRegister without bcrypt.hashSync: the plaintext goes to the store.
adminRegister_Plain(st, b, salt, dbOk) ==
    LET values == [username |-> b.username, password |-> Plain(b.password),
                   type |-> "admin"] IN
    IF hashSyncThrows(b.password) THEN ServerError(st, "Illegal arguments")
    ELSE IF ~dbOk THEN ServerError(st, StoreError)
    ELSE IF CreateThrows(values, st.users) THEN ServerError(st, "SequelizeValidationError")
    ELSE Reply(Inserted(st, values), 200, "User registered successfully as admin.", Null, {})

adminRegister(st, b, salt, dbOk) ==
    LET values == [username |-> b.username, password |-> hashSync(b.password, salt),
                   type |-> "admin"] IN
    IF hashSyncThrows(b.password) THEN ServerError(st, "Illegal arguments")
    ELSE IF ~dbOk THEN ServerError(st, StoreError)
    ELSE IF CreateThrows(values, st.users) THEN ServerError(st, "SequelizeValidationError")
    ELSE Reply(Inserted(st, values), 200, "User registered successfully as admin.", Null, {})

ngoAdminRegister(st, user, b, salt, dbOk) ==
    LET values == [username |-> b.username, password |-> hashSync(b.password, salt),
                   type |-> "ngo_admin"] IN
    IF hashSyncThrows(b.password) THEN ServerError(st, "Illegal arguments")
    ELSE IF user.type = "admin"
    THEN IF ~dbOk THEN ServerError(st, StoreError)
         ELSE IF CreateThrows(values, st.users)
         THEN ServerError(st, "SequelizeValidationError")
         ELSE Reply(Inserted(st, values), 200,
                    "User registered successfully as ngo admin.", Null, {})
    ELSE Reply(st, 403, "Access denied. Only admin can create school admins.", Null, {})

\* login: the reply, and in `token` the token it signs (Word(Null) when none).
login(st, b, dbOk) ==
    LET found == {i \in DOMAIN st.users : st.users[i].username = b.username} IN
    IF ~dbOk \/ b.username = Undefined
    THEN [reply |-> ServerError(st, StoreError), token |-> Word(Null)]
    ELSE IF found = {}
    THEN [reply |-> Reply(st, 404, "User not found.", Null, {}), token |-> Word(Null)]
    ELSE LET user == st.users[CHOOSE i \in found : TRUE] IN
         IF b.password = Undefined
         THEN [reply |-> ServerError(st, "Illegal arguments"), token |-> Word(Null)]
         ELSE IF ~compareSync(b.password, user.password)
         THEN [reply |-> Reply(st, 401, "auth:false", Null, {}), token |-> Word(Null)]
         ELSE IF secret = Undefined
         THEN [reply |-> ServerError(st, "secretOrPrivateKey must have a value"),
               token |-> Word(Null)]
         ELSE [reply |-> Reply(st, 200, "auth:true", Null, {}),
               token |-> sign(user.id, secret, now)]

(***************************************************************************)
(* The routes.  Behind authMiddleware a handler runs on a request that     *)
(* next() let through; adminRegister and login are mounted without it.     *)
(* The middleware reads nothing of a request but its Authorization header, *)
(* so the path parameters and the body are drawn when the handler reads    *)
(* them.                                                                   *)
(***************************************************************************)
St == [users |-> users, nextId |-> nextId, donors |-> donors, reports |-> reports,
       attendance |-> attendance]

Serve(s, route, out) ==
    /\ users' = out.st.users
    /\ nextId' = out.st.nextId
    /\ donors' = out.st.donors
    /\ last' = Response(route, NoHeader, [reqs[s].user EXCEPT !.id = 0], out.status, out.msg,
                        out.caught, out.detail, out.data, Word(Null))
    /\ reqs' = [reqs EXCEPT ![s] = Finished(reqs[s], 1)]
    /\ reports' = out.st.reports
    /\ attendance' = out.st.attendance
    /\ UNCHANGED <<mwVersion, secret, issued, now>>

GetAllAdmins(s) ==
    /\ reqs[s].pc = "handler"
    /\ \E dbOk \in BOOLEAN : Serve(s, "getAllAdmins", getAllAdmins(St, reqs[s].user, dbOk))

GetAdminById(s) ==
    /\ reqs[s].pc = "handler"
    /\ \E id \in Ids, dbOk \in BOOLEAN :
        Serve(s, "getAdminById", getAdminById(St, reqs[s].user, id, dbOk))

CreateAdmin(s) ==
    /\ reqs[s].pc = "handler"
    /\ nextId <= MaxId
    /\ \E b \in Bodies, dbOk \in BOOLEAN :
        Serve(s, "createAdmin", createAdmin(St, reqs[s].user, b, dbOk))

UpdateAdmin(s) ==
    /\ reqs[s].pc = "handler"
    /\ \E id \in Ids, b \in Bodies, dbOk \in BOOLEAN :
        Serve(s, "updateAdmin", updateAdmin(St, reqs[s].user, id, b, dbOk))

DeleteAdmin(s) ==
    /\ reqs[s].pc = "handler"
    /\ \E id \in Ids, dbOk \in BOOLEAN :
        Serve(s, "deleteAdmin", deleteAdmin(St, reqs[s].user, id, dbOk))

GetAllUsers(s) ==
    /\ reqs[s].pc = "handler"
    /\ \E dbOk \in BOOLEAN : Serve(s, "getAllUsers", getAllUsers(St, reqs[s].user, dbOk))

GetUserById(s) ==
    /\ reqs[s].pc = "handler"
    /\ \E id \in Ids, dbOk \in BOOLEAN :
        Serve(s, "getUserById", getUserById(St, reqs[s].user, id, dbOk))

CreateUser(s) ==
    /\ reqs[s].pc = "handler"
    /\ nextId <= MaxId
    /\ \E b \in Bodies, dbOk \in BOOLEAN :
        Serve(s, "createUser", createUser(St, reqs[s].user, b, dbOk))

UpdateUser(s) ==
    /\ reqs[s].pc = "handler"
    /\ \E id \in Ids, b \in Bodies, dbOk \in BOOLEAN :
        Serve(s, "updateUser", updateUser(St, reqs[s].user, id, b, dbOk))

DeleteUser(s) ==
    /\ reqs[s].pc = "handler"
    /\ \E id \in Ids, dbOk \in BOOLEAN :
        Serve(s, "deleteUser", deleteUser(St, reqs[s].user, id, dbOk))

GetDonorById(s) ==
    /\ reqs[s].pc = "handler"
    /\ \E id \in Ids, dbOk \in BOOLEAN :
        Serve(s, "getDonorById", getDonorById(St, reqs[s].user, id, dbOk))

CreateDonor(s) ==
    /\ reqs[s].pc = "handler"
    /\ donors.next <= MaxId
    /\ \E dbOk \in BOOLEAN : Serve(s, "createDonor", createDonor(St, reqs[s].user, dbOk))

DeleteDonor(s) ==
    /\ reqs[s].pc = "handler"
    /\ \E id \in Ids, dbOk \in BOOLEAN :
        Serve(s, "deleteDonor", deleteDonor(St, reqs[s].user, id, dbOk))

GetAllReports(s) ==
    /\ reqs[s].pc = "handler"
    /\ \E valid \in BOOLEAN, dbOk \in BOOLEAN :
        Serve(s, "getAllReports", getAllReports(St, reqs[s].user, valid, dbOk))

GetReportById(s) ==
    /\ reqs[s].pc = "handler"
    /\ \E id \in Ids, dbOk \in BOOLEAN :
        Serve(s, "getReportById", getReportById(St, reqs[s].user, id, dbOk))

CreateReport(s) ==
    /\ reqs[s].pc = "handler"
    /\ reports.next <= MaxReports
    /\ \E valid \in BOOLEAN, amount \in Amounts, dbOk \in BOOLEAN :
        Serve(s, "createReport", createReport(St, reqs[s].user, valid, amount, dbOk))

UpdateReportById(s) ==
    /\ reqs[s].pc = "handler"
    /\ \E id \in Ids, amount \in Amounts \cup {Undefined}, dbOk \in BOOLEAN :
        Serve(s, "updateReportById", updateReportById(St, reqs[s].user, id, amount, dbOk))

DeleteReportById(s) ==
    /\ reqs[s].pc = "handler"
    /\ \E id \in Ids, dbOk \in BOOLEAN :
        Serve(s, "deleteReportById", deleteReportById(St, reqs[s].user, id, dbOk))

GetAllVolunteerAttendance(s) ==
    /\ reqs[s].pc = "handler"
    /\ \E dbOk \in BOOLEAN :
        Serve(s, "getAllVolunteerAttendance",
              getAllVolunteerAttendance(St, reqs[s].user, dbOk))

GetVolunteerAttendanceById(s) ==
    /\ reqs[s].pc = "handler"
    /\ \E id \in Ids, dbOk \in BOOLEAN :
        Serve(s, "getVolunteerAttendanceById",
              getVolunteerAttendanceById(St, reqs[s].user, id, dbOk))

NgoAdminRegister(s) ==
    /\ reqs[s].pc = "handler"
    /\ nextId <= MaxId
    /\ \E b \in Credentials, salt \in Salts, dbOk \in BOOLEAN :
        Serve(s, "ngoAdminRegister", ngoAdminRegister(St, reqs[s].user, b, salt, dbOk))

AdminRegister(s) ==
    /\ reqs[s].pc = "idle"
    /\ nextId <= MaxId
    /\ \E b \in Credentials, salt \in Salts, dbOk \in BOOLEAN :
        Serve(s, "adminRegister", adminRegister(St, b, salt, dbOk))

Login(s) ==
    /\ reqs[s].pc = "idle"
    /\ \E b \in Credentials, dbOk \in BOOLEAN :
        LET out == login(St, b, dbOk) IN
        /\ out.token # Word(Null) => Cardinality(issued \cup {out.token}) <= MaxTokens
        /\ issued' = IF out.token = Word(Null) THEN issued ELSE issued \cup {out.token}
        /\ last' = Response("login", NoHeader, NoPrincipal, out.reply.status,
                            out.reply.msg, out.reply.caught, Null, {}, out.token)
        /\ reqs' = [reqs EXCEPT ![s] = Finished(reqs[s], 1)]
        /\ UNCHANGED <<mwVersion, secret, users, nextId, donors, reports, attendance, now>>

\* A request that is left without a response and with nothing more to run.
Hung == [Idle EXCEPT !.pc = "hung"]

\* A route mounted without authMiddleware: the handler runs on the request as
\* it came in, and either writes its response or leaves the request hanging
\* (`last` then records, with status 0, that the route wrote none).
Unprotected(s, route, out) ==
    IF out.status = 0
    THEN /\ reqs' = [reqs EXCEPT ![s] = Hung]
         /\ last' = Response(route, NoHeader, NoPrincipal, 0, out.msg, Null, Null, {},
                             Word(Null))
         /\ UNCHANGED <<mwVersion, secret, users, nextId, donors, reports, attendance,
                        issued, now>>
    ELSE Serve(s, route, out)

GetAllEmployees(s) ==
    /\ reqs[s].pc = "idle"
    /\ \E valid \in BOOLEAN, dbOk \in BOOLEAN :
        Unprotected(s, "getAllEmployees", getAllEmployees(St, reqs[s], valid, dbOk))

GetAllVolunteers(s) ==
    /\ reqs[s].pc = "idle"
    /\ \E dbOk \in BOOLEAN :
        Unprotected(s, "getAllVolunteers", getAllVolunteers(St, reqs[s], dbOk))

\* The client of a hanging request gives up and closes the connection.
Abandon(s) ==
    /\ reqs[s].pc = "hung"
    /\ reqs' = [reqs EXCEPT ![s] = Idle]
    /\ UNCHANGED <<mwVersion, secret, users, nextId, donors, reports, attendance, issued, now,
                   last>>

\* The connection of a finished request goes away; the slot is free again.
Close(s) ==
    /\ reqs[s].pc = "done"
    /\ reqs' = [reqs EXCEPT ![s] = Idle]
    /\ UNCHANGED <<mwVersion, secret, users, nextId, donors, reports, attendance, issued, now,
                   last>>

\* Time passes.
Tick ==
    /\ now + TickStep <= MaxTicks * TickStep
    /\ now' = now + TickStep
    /\ UNCHANGED <<mwVersion, secret, users, nextId, donors, reports, attendance, issued, reqs,
                   last>>

(***************************************************************************)
(* The state the server starts in: one of the two middleware copies, a     *)
(* credential table seeded outside the application, and the tokens that    *)
(* clients still hold from before (a token outlives both the process and   *)
(* the account: nothing revokes it).                                       *)
(***************************************************************************)
Alice == [id |-> 1, username |-> "alice", password |-> hashSync("secret123", 1),
          role |-> "admin"]

Bob == [id |-> 2, username |-> "bob", password |-> hashSync("hunter2", 1),
        role |-> "volunteer"]

\* The reports and the attendance records found at start-up.
Report1 == [i \in {1} |-> [id |-> 1, ngo_id |-> "ngo1", aid_amount |-> "10"]]

Attendance1 == [i \in {1} |-> [id |-> 1, batch_id |-> "batch1", school_id |-> "school1"]]

Seeds ==
    {[users |-> Put(Put(<<>>, Alice), Bob), issued |-> {}],
     [users |-> Put(<<>>, Alice), issued |-> {sign(2, Secret, 0)}]}

Init ==
    /\ mwVersion \in {"authMiddleware.js", "part_000"}
    /\ secret \in {Secret, Undefined}
    /\ \E seed \in Seeds : users = seed.users /\ issued = seed.issued
    /\ nextId = 3
    /\ donors = [ids |-> {1}, next |-> 2]
    /\ reports = [rows |-> Report1, next |-> 2]
    /\ attendance = Attendance1
    /\ now = 0
    /\ reqs = [s \in Slots |-> Idle]
    /\ last = NoResponse

Next ==
    \/ Tick
    \/ \E s \in Slots :
        \/ Receive(s)
        \/ MwLookup(s)
        \/ Close(s)
        \/ GetAllAdmins(s)
        \/ GetAdminById(s)
        \/ CreateAdmin(s)
        \/ UpdateAdmin(s)
        \/ DeleteAdmin(s)
        \/ GetAllUsers(s)
        \/ GetUserById(s)
        \/ CreateUser(s)
        \/ UpdateUser(s)
        \/ DeleteUser(s)
        \/ GetDonorById(s)
        \/ CreateDonor(s)
        \/ DeleteDonor(s)
        \/ GetAllReports(s)
        \/ GetReportById(s)
        \/ CreateReport(s)
        \/ UpdateReportById(s)
        \/ DeleteReportById(s)
        \/ GetAllVolunteerAttendance(s)
        \/ GetVolunteerAttendanceById(s)
        \/ NgoAdminRegister(s)
        \/ AdminRegister(s)
        \/ Login(s)
        \/ GetAllEmployees(s)
        \/ GetAllVolunteers(s)
        \/ Abandon(s)

Spec == Init /\ [][Next]_vars

(***************************************************************************)
(* Properties.                                                             *)
(***************************************************************************)
AdminOnlyRoutes ==
    {"getAllAdmins", "getAdminById", "createAdmin", "updateAdmin", "deleteAdmin",
     "getAllUsers", "getUserById", "createUser", "updateUser", "deleteUser",
     "getDonorById", "createDonor", "deleteDonor"}

\* The handler of request s answered in this step.
Answered(s) == reqs[s].pc = "handler" /\ reqs'[s].pc = "done"

\* C1: on every admin-only operation a request whose principal is not admin is
\* answered 401, gets no stored record, and leaves the stores unchanged
\* (requests that fail body validation or hit a store error are left aside).
C1_NonAdminDenied ==
    [][\A s \in Slots :
          (/\ Answered(s)
           /\ last'.route \in AdminOnlyRoutes
           /\ reqs[s].user.type # "admin"
           /\ last'.caught = Null
           /\ last'.status # 400)
          => (last'.status = 401 /\ last'.data = {} /\ users' = users /\ donors' = donors)]_vars

\* C2: the role the middleware attaches to the principal is the role stored on
\* the credential record at the time of the lookup.
C2_PrincipalHasStoredRole ==
    [][\A s \in Slots :
          (reqs[s].pc = "lookup" /\ reqs'[s].pc = "handler")
          => reqs'[s].user.type = users[reqs[s].id].role]_vars

\* C3: a request with a verified token whose subject has no credential record
\* any more is finished by the lookup without next() and without a principal,
\* and when the store answered the lookup its response is 404.
C3_DeletedSubjectRejected ==
    [][\A s \in Slots :
          (reqs[s].pc = "lookup" /\ reqs[s].id \notin DOMAIN users /\ reqs'[s] # reqs[s])
          => /\ reqs'[s].pc = "done"
             /\ ~reqs'[s].invoked
             /\ ~reqs'[s].authed
             /\ reqs'[s].nresp = 1
             /\ last'.route = "authMiddleware"
             /\ (last'.caught # StoreError =>
                    last'.status = 404 /\ last'.msg = "User not found.")]_vars

C3_Witness ==
    /\ last.route = "authMiddleware"
    /\ last.status = 404
    /\ \E t \in issued : t.id \notin DOMAIN users /\ t \in {last.hdr.parts[i] : i \in 1..Len(last.hdr.parts)}

\* C4: next() runs only for a request that has a principal attached; a request
\* the middleware rejects has exactly one response and next() never ran for it.
C4_NextOnlyWhenAuthenticated ==
    \A s \in Slots :
        /\ reqs[s].invoked => reqs[s].authed
        /\ reqs[s].pc = "handler" => (reqs[s].invoked /\ reqs[s].user # NoPrincipal
                                      /\ reqs[s].nresp = 0)
        /\ reqs[s].pc = "lookup" => (~reqs[s].invoked /\ reqs[s].nresp = 0)
        /\ (reqs[s].pc = "done" /\ ~reqs[s].authed) => (reqs[s].nresp = 1 /\ ~reqs[s].invoked)
        /\ reqs[s].nresp <= 1

C4_Witness ==
    \E s \in Slots :
        /\ reqs[s].pc = "done" /\ ~reqs[s].authed /\ reqs[s].nresp = 1
        /\ last.route = "authMiddleware" /\ last.status \in {400, 401, 404}

\* C5: a header that is present but holds nothing after the "Bearer " prefix is
\* rejected with 401 "invalid token format".
C5_EmptyBearerIs401 ==
    (last.route = "authMiddleware" /\ last.hdr = Header(<<BearerWord, EmptyString>>))
    => (last.status = 401 /\ last.msg = "Invalid token format.")

\* C6: a token of an existing user that verifies is accepted as the raw header
\* value and as "Bearer <token>" alike: in both forms the middleware goes on
\* to look up the token's subject.
C6_RawAndBearerAccepted ==
    [][\A s \in Slots : \A t \in issued :
          LET received == IF reqs'[s].pc = "lookup" THEN reqs'[s].hdr ELSE last'.hdr IN
          (/\ reqs[s].pc = "idle"
           /\ reqs'[s].pc = "lookup" \/ (reqs'[s].pc = "done" /\ last'.route = "authMiddleware")
           /\ verify(t, now) = "ok"
           /\ t.id \in DOMAIN users
           /\ received \in {Header(<<t>>), Header(<<BearerWord, t>>)})
          => (reqs'[s].pc = "lookup" /\ reqs'[s].id = t.id)]_vars

VerifyErrors == {"jwt must be provided", "jwt malformed", "invalid signature", "jwt expired"}

\* C7: when jwt.verify fails the response is 400 with the fixed body
\* "Invalid token." and carries no exception text.
C7_GenericInvalidToken ==
    (last.route = "authMiddleware" /\ last.caught \in VerifyErrors)
    => (last.status = 400 /\ last.msg = "Invalid token." /\ last.detail = Null)

C10_NoPasswordInResponses == \A rec \in last.data : "password" \notin DOMAIN rec

ReportByIdRoutes == {"getReportById", "updateReportById", "deleteReportById"}

\* The principal is admin, or an NGO admin whose ngo_id is that of a stored report.
MayActOnSomeReport(user) ==
    \/ user.type = "admin"
    \/ (user.type = "ngo_admin"
        /\ \E i \in DOMAIN reports.rows : reports.rows[i].ngo_id = Get(user, "ngo_id"))

C12_CreateReportDenied ==
    [][\A s \in Slots :
          (/\ Answered(s)
           /\ last'.route = "createReport"
           /\ reqs[s].user.type \notin {"admin", "ngo_admin"}
           /\ last'.caught = Null
           /\ last'.status # 400)
          => (last'.status = 401 /\ reports' = reports)]_vars

\* C13: a principal whose type is none of admin, school_admin and employee is
\* returned no attendance record, neither by the list nor by get-by-id.
C13_AttendanceHiddenFromOtherRoles ==
    [][\A s \in Slots :
          (/\ Answered(s)
           /\ last'.route \in {"getAllVolunteerAttendance", "getVolunteerAttendanceById"}
           /\ reqs[s].user.type \notin {"admin", "school_admin", "employee"})
          => last'.data = {}]_vars

\* C14: once login has served a request: for every username and password a
\* client may send while the store answers, login gives 200 with a token of the record's id when the
\* password is the record's, 401 {auth:false, token:null} when the username
\* exists and the password is another, 404 when the username is unknown; and
\* a login response carries a token exactly when its status is 200.
C14_LoginOutcomes ==
    /\ \A b \in Credentials :
          (last.route = "login" /\ b.username # Undefined /\ b.password # Undefined) =>
              LET out == login(St, b, TRUE)
                  found == {i \in DOMAIN users : users[i].username = b.username}
              IN  /\ found = {} =>
                        (out.reply.status = 404 /\ out.token = Word(Null))
                  /\ \A i \in found :
                        IF users[i].password.text = b.password
                        THEN /\ out.reply.status = 200
                             /\ out.reply.msg = "auth:true"
                             /\ out.token.kind = "jwt"
                             /\ out.token.id = i
                        ELSE /\ out.reply.status = 401
                             /\ out.reply.msg = "auth:false"
                             /\ out.token = Word(Null)
    /\ last.route = "login" => (last.token # Word(Null) <=> last.status = 200)

\* The header the middleware read in this step from the request in slot s.
ReceivedHeader(s) == IF reqs'[s].pc = "lookup" THEN reqs'[s].hdr ELSE last'.hdr

\* The middleware took the request of slot s in this step.
Received(s) ==
    /\ reqs[s].pc = "idle"
    /\ reqs'[s].pc = "lookup" \/ (reqs'[s].pc = "done" /\ last'.route = "authMiddleware")

NotAdmin(s) == reqs[s].pc = "handler" /\ reqs[s].user.type # "admin"

\* C16: a request of a principal who fails the authorization test, addressed
\* to an id under which nothing is stored, is answered 404 by every by-id
\* handler when the store answers.
C16_NotFoundBeforeDenied ==
    \A s \in Slots : NotAdmin(s) =>
        /\ \A id \in Ids \ DOMAIN reports.rows :
            /\ getReportById(St, reqs[s].user, id, TRUE).status = 404
            /\ deleteReportById(St, reqs[s].user, id, TRUE).status = 404
        /\ \A id \in Ids \ DOMAIN attendance :
            getVolunteerAttendanceById(St, reqs[s].user, id, TRUE).status = 404
        /\ \A id \in Ids \ DOMAIN users :
            /\ deleteAdmin(St, reqs[s].user, id, TRUE).status = 404
            /\ getUserById(St, reqs[s].user, id, TRUE).status = 404
            /\ deleteUser(St, reqs[s].user, id, TRUE).status = 404
        /\ \A id \in Ids \ donors.ids :
            /\ getDonorById(St, reqs[s].user, id, TRUE).status = 404
            /\ deleteDonor(St, reqs[s].user, id, TRUE).status = 404

\* C17: no response has status 403, and a registration that is refused
\* because the principal is not admin is answered 401.
C17_DenialIs401 ==
    /\ last.status # 403
    /\ (last.route = "ngoAdminRegister" /\ last.user.type # "admin" /\ last.caught = Null)
       => last.status = 401

\* C18: when the store fails the middleware's lookup of the principal, the
\* response is a 5xx, not the 400 of an invalid token.
C18_LookupFailureIs5xx ==
    (last.route = "authMiddleware" /\ last.caught = StoreError)
    => (last.status >= 500 /\ last.msg # "Invalid token.")

\* C19: a process started without the signing secret takes no request and
\* writes no response.
C19_NoSecretNoTraffic ==
    secret = Undefined => (last = NoResponse /\ \A s \in Slots : reqs[s] = Idle)

\* C20: a registration never stores a credential record made from an empty
\* or a missing password, and never reports success for one.
C20_EmptyPasswordRejected ==
    [][\A s \in Slots :
          (/\ reqs[s].pc # "done"
           /\ reqs'[s].pc = "done"
           /\ last'.route \in {"adminRegister", "ngoAdminRegister"})
          => \A i \in (DOMAIN users') \ (DOMAIN users) :
                users'[i].password.text \notin {EmptyText, Undefined}]_vars

\* C21: a step of the authentication middleware, whatever its outcome, leaves
\* every store as it was, and a request is suspended in the credential lookup
\* at most once: it enters the lookup only from its start and leaves it for
\* the handler or for its end.
C21_MiddlewareWritesNothing ==
    /\ [][\A s \in Slots :
            (Received(s) \/ (reqs[s].pc = "lookup" /\ reqs'[s] # reqs[s]))
            => /\ users' = users
               /\ nextId' = nextId
               /\ donors' = donors
               /\ reports' = reports
               /\ attendance' = attendance
               /\ issued' = issued]_vars
    /\ [][\A s \in Slots :
            /\ (reqs'[s].pc = "lookup" /\ reqs[s].pc # "lookup") => reqs[s].pc = "idle"
            /\ (reqs[s].pc = "lookup" /\ reqs'[s] # reqs[s])
                  => reqs'[s].pc \in {"handler", "done"}]_vars

C21_Witness ==
    /\ last.route = "authMiddleware"
    /\ last.status = 404
    /\ \E s \in Slots : reqs[s].pc = "done" /\ ~reqs[s].authed

\* C22: a request without an Authorization header is finished by the
\* middleware at once with 401 "no token provided": no verification was
\* attempted (nothing was caught) and the request never enters the lookup.
C22_NoHeaderIs401 ==
    [][\A s \in Slots :
          (Received(s) /\ ~ReceivedHeader(s).present)
          => /\ reqs'[s].pc = "done"
             /\ reqs'[s].nresp = 1
             /\ ~reqs'[s].invoked
             /\ last'.status = 401
             /\ last'.msg = "Access denied. No token provided."
             /\ last'.caught = Null]_vars

C22_Witness ==
    /\ last.route = "authMiddleware"
    /\ ~last.hdr.present
    /\ last.status = 401

\* C23: no request is ever left without a response once nothing of it remains
\* to run, and no request has more than one response.
C23_EveryRequestAnswered ==
    \A s \in Slots : reqs[s].pc # "hung" /\ reqs[s].nresp <= 1

\* C27: every report in a getAllReports response is one that getReportById
\* would give to the same principal.
C27_ListWithinByIdAccess ==
    [][\A s \in Slots :
          (Answered(s) /\ last'.route = "getAllReports")
          => \A rec \in last'.data : ReportAllowed(reqs[s].user, rec)]_vars

\* The ids of the records created since start-up (the seeded records are
\* Alice and Bob); in every reachable state they come from adminRegister.
RegisteredIds == (DOMAIN users) \ {Alice.id, Bob.id}

\* C25: when the middleware lets through a request of a user created by
\* admin registration, the principal it attaches has type admin and the
\* stored record has role admin.
C25_RegisteredAdminIsAdmin ==
    [][\A s \in Slots :
          (/\ reqs[s].pc = "lookup"
           /\ reqs'[s].pc = "handler"
           /\ reqs[s].id \in RegisteredIds)
          => /\ reqs'[s].user.type = "admin"
             /\ users[reqs[s].id].role = "admin"]_vars

\* C26: once login has served a request: for every record created since
\* start-up, login with its username and the password it was created with
\* answers 200 {auth:true} with a token of that record while the store
\* answers.
C26_CreatedRecordCanLogIn ==
    last.route = "login" =>
        \A i \in RegisteredIds :
            LET out == login(St, [username |-> users[i].username,
                                  password |-> users[i].password.text,
                                  type |-> Undefined, role |-> Undefined], TRUE)
            IN  /\ out.reply.status = 200
                /\ out.reply.msg = "auth:true"
                /\ out.token.kind = "jwt"
                /\ out.token.id = i

AdminByIdRoutes == {"getAdminById", "updateAdmin", "deleteAdmin"}

\* C28: the admin by-id handlers return only records whose role is admin and
\* leave every record whose role is not admin as it is.
C28_AdminByIdOnlyAdmins ==
    [][\A s \in Slots :
          (Answered(s) /\ last'.route \in AdminByIdRoutes)
          => /\ \A rec \in last'.data : rec.role = "admin"
             /\ \A i \in DOMAIN users :
                   users[i].role # "admin" => (i \in DOMAIN users' /\ users'[i] = users[i])]_vars

====
